---- MODULE Spec2Model ----
(***************************************************************************)
(* Model of the electrical equipment extractor                             *)
(* (src/extract_equipment_simple.py) and of its upload endpoint            *)
(* (src/server.py).                                                        *)
(*                                                                         *)
(* An equipment name such as MVSAA100 is the pair <<"MVS", "AA100">>: its   *)
(* first three characters and the remaining five.  The text of a word of   *)
(* the PDF is a sequence of such tokens, "'" being the quote character.    *)
(* The empty string, where a name is expected, is EmptyName.  Python's     *)
(* None is the record NoneVal, a returned value v is Some(v).              *)
(***************************************************************************)
EXTENDS Integers, Sequences, FiniteSets, TLC

VARIABLES
    pdf,             \* the uploaded document: [pages: Seq([words, raises])]
    pc,              \* position of the run inside extract_equipment / main
    page_num,        \* number of pages already processed by the page loop
    seen_equipment,  \* names already taken (extract_with_positions_pdfplumber)
    equipment_data,  \* accumulator of the page loop
    page_equipment,  \* items of the page processed last, sorted and coloured
    rows,            \* rows of the page processed last
    calls,           \* calls of get_dsg_color_by_position made for that page
    ret,             \* value returned by extract_with_positions_pdfplumber
    data,            \* main's equipment_data after populate_connections
    xlsx,            \* data rows handed to the spreadsheet writer
    response,        \* answer of the endpoint
    cargs,           \* arguments of one call of get_dsg_color_by_position
    ccolor,          \* its result
    clock,           \* int(time.time()): the clock, in whole seconds
    handled,         \* requests the endpoint has answered
    outputs          \* the outputs directory: file name -> request that wrote it

vars == <<pdf, pc, page_num, seen_equipment, equipment_data, page_equipment,
          rows, calls, ret, data, xlsx, response, cargs, ccolor, clock,
          handled, outputs>>

runVars == <<pdf, pc, page_num, seen_equipment, equipment_data,
             page_equipment, rows, calls, ret, data, xlsx, response>>
colorVars == <<cargs, ccolor>>
serverVars == <<clock, handled, outputs>>

NoneVal == [some |-> FALSE, val |-> <<>>]
Some(v) == [some |-> TRUE, val |-> v]
IsNone(r) == ~r.some
EmptyName == <<>>

(***************************************************************************)
(* Bounds of the model.                                                    *)
(***************************************************************************)
MaxPages == 2       \* pages of a document
MaxWords == 2       \* words of a document of ScanInputs
MaxCols == 9        \* row lengths tried on get_dsg_color_by_position
MaxRowNum == 2      \* row numbers tried on get_dsg_color_by_position
MaxRequests == 2    \* requests sent to the endpoint
MaxClock == 3       \* last clock value, in seconds

(***************************************************************************)
(* COLOR DEFINITIONS                                                       *)
(***************************************************************************)
COLOR_SEQUENCE ==
    << <<"Black", "333333">>, <<"Red", "FFB3B3">>, <<"Blue", "B3D9FF">>,
       <<"Orange", "FFD9B3">>, <<"Pink", "FFB3E6">>, <<"Purple", "D9B3FF">>,
       <<"Yellow", "FFFF99">>, <<"Light Grey", "E6E6E6">> >>

MVS_COLOR == "333333"

y_threshold == 50

\* COLOR_SEQUENCE[i][1] of the source, i counted from 0
color_hex_at(i) == COLOR_SEQUENCE[i + 1][2]

get_dsg_color_cycle7(page_num_, row_num, col_num, total_cols) ==
    IF page_num_ = 0 /\ row_num = 0
    THEN IF col_num = 0
         THEN color_hex_at(0)
         ELSE color_hex_at(col_num % Len(COLOR_SEQUENCE))
    ELSE IF page_num_ = 1 /\ row_num = 0 /\ col_num = total_cols - 1
         THEN color_hex_at(0)
         ELSE color_hex_at(1 + (col_num % (Len(COLOR_SEQUENCE) - 1)))

get_dsg_color_shifted(page_num_, row_num, col_num, total_cols) ==
    color_hex_at((col_num + 1) % Len(COLOR_SEQUENCE))

get_dsg_color_by_position(page_num_, row_num, col_num, total_cols) ==
    IF page_num_ = 0 /\ row_num = 0
    THEN IF col_num = 0
         THEN color_hex_at(0)
         ELSE color_hex_at(col_num % Len(COLOR_SEQUENCE))
    ELSE IF page_num_ = 1 /\ row_num = 0 /\ col_num = total_cols - 1
         THEN color_hex_at(0)
         ELSE color_hex_at((col_num + 1) % Len(COLOR_SEQUENCE))

\* next((name for name, hex_code in COLOR_SEQUENCE if hex_code == color_hex), "Unknown")
color_name_of(color_hex) ==
    LET hits == {i \in 1..Len(COLOR_SEQUENCE) : COLOR_SEQUENCE[i][2] = color_hex}
    IN  IF hits = {} THEN "Unknown"
        ELSE COLOR_SEQUENCE[CHOOSE i \in hits : \A j \in hits : i <= j][1]

(***************************************************************************)
(* Scanning the words of a page                                            *)
(***************************************************************************)
Quote == "'"
Letters3 == {"MVS", "DSG", "XFR"}                       \* [A-Z]{3}
AlnumDigits5 == {"AA100", "AA101", "AA102", "AA103", "AA104"}  \* [A-Z0-9]{2}\d{3}

\* re.search(equipment_pattern, text): the offsets at which the pattern matches
match_offsets(text) ==
    {i \in 1..(Len(text) - 3) :
        /\ text[i] = Quote
        /\ text[i + 1] \in Letters3
        /\ text[i + 2] \in AlnumDigits5
        /\ text[i + 3] = Quote}

\* match.group(1) of the leftmost match
match_group1(text) ==
    LET i == CHOOSE k \in match_offsets(text) : \A j \in match_offsets(text) : k <= j
    IN  <<text[i + 1], text[i + 2]>>

\* equipment_name[:3]
equipment_type_of(equipment_name) == equipment_name[1]

RecognizedTypes == {"MVS", "DSG"}

\* the property-string parser: an opaque summary of the text around the word
extract_properties_enhanced(word) == word.context

new_item(word, page_num_) ==
    [Equipment  |-> match_group1(word.text),
     Type       |-> equipment_type_of(match_group1(word.text)),
     Properties |-> extract_properties_enhanced(word),
     x_position |-> word.x0,
     y_position |-> word.top,
     page       |-> page_num_]

already_seen_never(equipment_name, seen) == FALSE

\* the "if equipment_name in seen_equipment: continue" test
already_seen(equipment_name, seen) == equipment_name \in seen

\* one iteration of "for i, word in enumerate(words)" on acc = [items, seen]
scan_word(word, page_num_, acc) ==
    IF match_offsets(word.text) = {} THEN acc
    ELSE LET equipment_name == match_group1(word.text)
         IN  IF equipment_type_of(equipment_name) \notin RecognizedTypes THEN acc
             ELSE IF already_seen(equipment_name, acc.seen) THEN acc
             ELSE [items |-> Append(acc.items, new_item(word, page_num_)),
                   seen  |-> acc.seen \cup {equipment_name}]

RECURSIVE scan_words(_, _, _, _)
scan_words(words, i, page_num_, acc) ==
    IF i > Len(words) THEN acc
    ELSE scan_words(words, i + 1, page_num_, scan_word(words[i], page_num_, acc))

(***************************************************************************)
(* list.sort(key=...): a stable sort on tuples of numbers                  *)
(***************************************************************************)
RECURSIVE tuple_less(_, _)
tuple_less(a, b) ==
    IF a = <<>> \/ b = <<>> THEN a = <<>> /\ b # <<>>
    ELSE IF a[1] # b[1] THEN a[1] < b[1]
    ELSE tuple_less(Tail(a), Tail(b))

page_key(eq) == <<eq.y_position, eq.x_position>>

final_key_swapped(eq) == <<eq.page, eq.x_position, eq.y_position>>

final_key(eq) == <<eq.page, eq.y_position, eq.x_position>>

RECURSIVE insert_by(_, _, _)
insert_by(sorted, e, k) ==
    IF sorted = <<>> THEN <<e>>
    ELSE IF tuple_less(k[e.Equipment], k[sorted[1].Equipment])
         THEN <<e>> \o sorted
         ELSE <<sorted[1]>> \o insert_by(Tail(sorted), e, k)

RECURSIVE sort_from(_, _, _, _)
sort_from(items, i, sorted, k) ==
    IF i > Len(items) THEN sorted
    ELSE sort_from(items, i + 1, insert_by(sorted, items[i], k), k)

names_of(items) == {items[i].Equipment : i \in 1..Len(items)}
item_named(items, n) == items[CHOOSE i \in 1..Len(items) : items[i].Equipment = n]

sort_page(items) ==
    sort_from(items, 1, <<>>,
              [n \in names_of(items) |-> page_key(item_named(items, n))])

sort_final(items) ==
    sort_from(items, 1, <<>>,
              [n \in names_of(items) |-> final_key(item_named(items, n))])

(***************************************************************************)
(* Grouping a page's items into rows                                       *)
(***************************************************************************)
abs(n) == IF n < 0 THEN -n ELSE n

same_row_inclusive(eq, st) ==
    ~st.last_y.some \/ abs(eq.y_position - st.last_y.val) <= y_threshold

\* "last_y is None or abs(eq['y_position'] - last_y) < y_threshold"
same_row(eq, st) ==
    ~st.last_y.some \/ abs(eq.y_position - st.last_y.val) < y_threshold

\* one iteration of "for eq in page_equipment" on st = [rows, current_row, last_y]
cluster_step(eq, st) ==
    IF same_row(eq, st)
    THEN [rows        |-> st.rows,
          current_row |-> Append(st.current_row, eq),
          last_y      |-> Some(eq.y_position)]
    ELSE [rows        |-> IF st.current_row # <<>>
                          THEN Append(st.rows, st.current_row)
                          ELSE st.rows,
          current_row |-> <<eq>>,
          last_y      |-> Some(eq.y_position)]

RECURSIVE cluster_loop(_, _, _)
cluster_loop(items, i, st) ==
    IF i > Len(items) THEN st
    ELSE cluster_loop(items, i + 1, cluster_step(items[i], st))

cluster_rows(items) ==
    LET st == cluster_loop(items, 1,
                  [rows |-> <<>>, current_row |-> <<>>, last_y |-> NoneVal])
    IN  IF st.current_row # <<>> THEN Append(st.rows, st.current_row)
        ELSE st.rows

(***************************************************************************)
(* Assigning colours to the rows of a page; row_idx and col_idx count from *)
(* 0 as enumerate() does                                                   *)
(***************************************************************************)
\* "if row[0]['Type'] == 'MVS'"
is_mvs_row(row) == row[1].Type = "MVS"

\* the row number handed to get_dsg_color_by_position
assigner_row_num_unshifted(row_idx) == row_idx

assigner_row_num(row_idx) == row_idx - 1

dsg_call(page_num_, row_idx, col_idx, row) ==
    [page_num   |-> page_num_,
     row_num    |-> assigner_row_num(row_idx),
     col_num    |-> col_idx,
     total_cols |-> Len(row),
     row_idx    |-> row_idx,
     Equipment  |-> row[col_idx + 1].Equipment]

call_color(c) ==
    get_dsg_color_by_position(c.page_num, c.row_num, c.col_num, c.total_cols)

color_of(page_num_, row_idx, col_idx, row) ==
    IF is_mvs_row(row) THEN MVS_COLOR
    ELSE call_color(dsg_call(page_num_, row_idx, col_idx, row))

color_name_in_row(page_num_, row_idx, col_idx, row) ==
    IF is_mvs_row(row) THEN "Black"
    ELSE color_name_of(color_of(page_num_, row_idx, col_idx, row))

\* the rows after "for row_idx, row in enumerate(rows)"
color_rows(page_num_, rs) ==
    [r \in 1..Len(rs) |->
        [c \in 1..Len(rs[r]) |->
            rs[r][c] @@
            [Color     |-> color_of(page_num_, r - 1, c - 1, rs[r]),
             ColorName |-> color_name_in_row(page_num_, r - 1, c - 1, rs[r])]]]

\* the calls of get_dsg_color_by_position made by that loop
dsg_calls(page_num_, rs) ==
    UNION {IF is_mvs_row(rs[r]) THEN {}
           ELSE {dsg_call(page_num_, r - 1, c - 1, rs[r]) : c \in 1..Len(rs[r])} :
           r \in 1..Len(rs)}

\* the rows hold the page's own item objects: colouring a row item colours
\* the item of page_equipment with that name
stamped(items, crows) ==
    [i \in 1..Len(items) |->
        LET hits == {rc \in (1..Len(crows)) \X (1..Len(items)) :
                        /\ rc[2] <= Len(crows[rc[1]])
                        /\ crows[rc[1]][rc[2]].Equipment = items[i].Equipment}
        IN  IF hits = {} THEN items[i]
            ELSE LET rc == CHOOSE h \in hits : TRUE IN crows[rc[1]][rc[2]]]

\* the body of "for page_num, page in enumerate(pdf.pages)" for a page whose
\* extraction does not raise
process_page(page, page_num_, seen) ==
    LET scanned == scan_words(page.words, 1, page_num_,
                              [items |-> <<>>, seen |-> seen])
        sorted  == sort_page(scanned.items)
        crows   == color_rows(page_num_, cluster_rows(sorted))
    IN  [seen           |-> scanned.seen,
         rows           |-> crows,
         calls          |-> dsg_calls(page_num_, cluster_rows(sorted)),
         page_equipment |-> stamped(sorted, crows)]

\* lines 214-222: the final sort and the empty connection fields
finish_extraction(items) ==
    LET sorted == sort_final(items)
    IN  [i \in 1..Len(sorted) |->
            sorted[i] @@ [Alternate_From |-> EmptyName, Primary_From |-> EmptyName]]

\* the "except Exception" branch
extraction_failed_partial(items) == Some(finish_extraction(items))

extraction_failed(items) == NoneVal

(***************************************************************************)
(* populate_connections                                                    *)
(***************************************************************************)
RECURSIVE select_type(_, _)
select_type(items, t) ==
    IF items = <<>> THEN <<>>
    ELSE IF items[1].Type = t
         THEN <<items[1]>> \o select_type(Tail(items), t)
         ELSE select_type(Tail(items), t)

RECURSIVE select_page(_, _)
select_page(items, p) ==
    IF items = <<>> THEN <<>>
    ELSE IF items[1].page = p
         THEN <<items[1]>> \o select_page(Tail(items), p)
         ELSE select_page(Tail(items), p)

\* mvs_equipment[:2] if len(mvs_equipment) >= 2 else mvs_equipment
first_two(mvs_equipment) ==
    IF Len(mvs_equipment) >= 2 THEN SubSeq(mvs_equipment, 1, 2)
    ELSE mvs_equipment

mvs_for_page_no_fallback(mvs_equipment, p) == select_page(mvs_equipment, p)

mvs_for_page(mvs_equipment, p) ==
    LET mvs_on_page == select_page(mvs_equipment, p)
    IN  IF mvs_on_page = <<>> /\ mvs_equipment # <<>>
        THEN first_two(mvs_equipment)
        ELSE mvs_on_page

connect(dsg, mvs_on_page) ==
    IF Len(mvs_on_page) >= 2
    THEN [dsg EXCEPT !.Primary_From = mvs_on_page[1].Equipment,
                     !.Alternate_From = mvs_on_page[2].Equipment]
    ELSE IF Len(mvs_on_page) = 1
         THEN [dsg EXCEPT !.Primary_From = mvs_on_page[1].Equipment]
         ELSE dsg

populate_connections_every_item(items) ==
    LET mvs_equipment == select_type(items, "MVS")
        mvs_sorted    == sort_final(mvs_equipment)
    IN  IF mvs_equipment = <<>> THEN items
        ELSE [i \in 1..Len(items) |->
                connect(items[i], mvs_for_page(mvs_sorted, items[i].page))]

populate_connections(items) ==
    LET mvs_equipment == select_type(items, "MVS")
        mvs_sorted    == sort_final(mvs_equipment)
    IN  IF mvs_equipment = <<>> THEN items
        ELSE [i \in 1..Len(items) |->
                IF items[i].Type = "DSG"
                THEN connect(items[i], mvs_for_page(mvs_sorted, items[i].page))
                ELSE items[i]]

(***************************************************************************)
(* create_excel_file: the data rows appended to the sheet, with their fill *)
(***************************************************************************)
sheet_row(item) ==
    [cells |-> <<item.Equipment, item.Type, item.Properties,
                 item.Alternate_From, item.Primary_From>>,
     fill  |-> item.Color]

create_excel_file(items) == [i \in 1..Len(items) |-> sheet_row(items[i])]

(***************************************************************************)
(* main and the endpoint, as functions of the document                     *)
(***************************************************************************)
RECURSIVE extract_pages(_, _, _, _)
extract_pages(pages, p, seen, acc) ==
    IF p > Len(pages) THEN Some(finish_extraction(acc))
    ELSE IF pages[p].raises THEN extraction_failed(acc)
    ELSE LET r == process_page(pages[p], p - 1, seen)
         IN  extract_pages(pages, p + 1, r.seen, acc \o r.page_equipment)

extract_with_positions_pdfplumber(doc) == extract_pages(doc.pages, 1, {}, <<>>)

\* "equipment_data is None or len(equipment_data) == 0", in extract_from_pdf
\* and again in main
no_equipment(r) == IsNone(r) \/ Len(r.val) = 0

\* df: clean_data without the Color and ColorName columns
data_frame(items) ==
    [i \in 1..Len(items) |->
        [Equipment      |-> items[i].Equipment,
         Type           |-> items[i].Type,
         Properties     |-> items[i].Properties,
         Alternate_From |-> items[i].Alternate_From,
         Primary_From   |-> items[i].Primary_From]]

\* main(pdf_path, output_path): None, or (df, equipment_data) and the sheet
main(doc) ==
    LET r == extract_with_positions_pdfplumber(doc)
    IN  IF no_equipment(r) THEN NoneVal
        ELSE LET connected == populate_connections(r.val)
             IN  Some([df             |-> data_frame(connected),
                       equipment_data |-> connected,
                       sheet          |-> create_excel_file(connected)])

count_type(df, t) == Cardinality({i \in 1..Len(df) : df[i].Type = t})

\* output_name = f"equipment_data_{timestamp}.xlsx"
output_name_of(timestamp) == <<"equipment_data_", timestamp, ".xlsx">>

NoResponse ==
    [status |-> 0, detail |-> "", mvs_count |-> 0, dsg_count |-> 0,
     output_name |-> <<>>, equipment_list |-> <<>>]

not_pdf_response == [NoResponse EXCEPT !.status = 400,
                                       !.detail = "Only PDF files are allowed"]

\* unpacking main's None raises TypeError, which the handler's except catches
unpack_failed_response ==
    [NoResponse EXCEPT
        !.status = 500,
        !.detail = "Extraction failed. cannot unpack non-iterable NoneType object"]

success_response(df, items, output_name) ==
    [status |-> 200, detail |-> "",
     mvs_count |-> count_type(df, "MVS"), dsg_count |-> count_type(df, "DSG"),
     output_name |-> output_name, equipment_list |-> items]

(***************************************************************************)
(* Documents                                                               *)
(***************************************************************************)
MVSAA100 == <<"MVS", "AA100">>
MVSAA101 == <<"MVS", "AA101">>
DSGAA102 == <<"DSG", "AA102">>
DSGAA103 == <<"DSG", "AA103">>
XFRAA104 == <<"XFR", "AA104">>

EquipNames == <<MVSAA100, MVSAA101, DSGAA102, DSGAA103>>

quoted(n) == <<Quote, n[1], n[2], Quote>>
unquoted(n) == <<n[1], n[2]>>

word_at(text, pt, context) ==
    [text |-> text, x0 |-> pt[1], top |-> pt[2], context |-> context]

Xs == {10, 200}
Ys == {10, 60, 100, 140}
GridPoints == Xs \X Ys
FewPoints == {<<200, 10>>, <<10, 100>>}
UpperYs == {10, 60}
Absent == <<-1, -1>>

page_of(words) == [words |-> words, raises |-> FALSE]
document(pages) == [content_type |-> "application/pdf", pages |-> pages]

\* the words of EquipNames that the placement a puts on page p, in name order
RECURSIVE placed_words(_, _, _)
placed_words(a, p, i) ==
    IF i > Len(EquipNames) THEN <<>>
    ELSE IF a[i] # Absent /\ a[i][1] = p
         THEN <<word_at(quoted(EquipNames[i]), a[i][2], "")>>
               \o placed_words(a, p, i + 1)
         ELSE placed_words(a, p, i + 1)

\* one page, every equipment name at most once, anywhere on the grid
\* (the Service names in the upper half of it)
GridInputs ==
    {document(<<page_of(placed_words(a, 0, 1))>>) :
        a \in {g \in [1..Len(EquipNames) -> {Absent} \cup ({0} \X GridPoints)] :
                 \A i \in 1..Len(EquipNames) :
                     (EquipNames[i][1] = "MVS" /\ g[i] # Absent)
                     => g[i][2][2] \in UpperYs}}

\* MaxPages pages, every equipment name at most once
PagedInputs ==
    {document([p \in 1..MaxPages |-> page_of(placed_words(a, p - 1, 1))]) :
        a \in [1..Len(EquipNames) ->
                 {Absent} \cup ((0..(MaxPages - 1)) \X FewPoints)]}

\* words with a repeated name, an unrecognized prefix and no match
ScanWords ==
    {word_at(quoted(MVSAA100), <<10, 10>>, "15kV"),
     word_at(quoted(MVSAA100), <<200, 100>>, ""),
     word_at(<<"SEE">> \o quoted(DSGAA102), <<10, 60>>, "480V"),
     word_at(quoted(XFRAA104), <<10, 10>>, "500KVA"),
     word_at(unquoted(MVSAA101), <<200, 10>>, "")}

RECURSIVE words_on(_, _, _)
words_on(stream, p, i) ==
    IF i > Len(stream) THEN <<>>
    ELSE IF stream[i][2] = p
         THEN <<stream[i][1]>> \o words_on(stream, p, i + 1)
         ELSE words_on(stream, p, i + 1)

\* up to MaxWords words spread in order over MaxPages pages; the extractor
\* may raise on one page
ScanInputs ==
    {document([p \in 1..MaxPages |->
                 [words  |-> words_on(stream, p - 1, 1),
                  raises |-> (p - 1 = bad)]]) :
        <<stream, bad>> \in
            {sb \in (UNION {[1..n -> ScanWords \X (0..(MaxPages - 1))] :
                              n \in 0..MaxWords})
                    \X (-1..(MaxPages - 1)) :
                \A i \in 1..(Len(sb[1]) - 1) : sb[1][i][2] <= sb[1][i + 1][2]}}

NotPdfInputs ==
    {[content_type |-> "text/plain", pages |-> <<page_of(<<>>)>>]}

Inputs == GridInputs \cup PagedInputs \cup ScanInputs \cup NotPdfInputs

(***************************************************************************)
(* One request, step by step                                               *)
(***************************************************************************)
ColorIdle == cargs = <<>> /\ ccolor = ""
ServerIdle == clock = 0 /\ handled = <<>> /\ outputs = <<>>

Init ==
    /\ pdf \in Inputs
    /\ pc = "request"
    /\ page_num = 0
    /\ seen_equipment = {}
    /\ equipment_data = <<>>
    /\ page_equipment = <<>>
    /\ rows = <<>>
    /\ calls = {}
    /\ ret = NoneVal
    /\ data = NoneVal
    /\ xlsx = NoneVal
    /\ response = NoResponse
    /\ ColorIdle
    /\ ServerIdle

\* server.py 38-42
RejectNotPdf ==
    /\ pc = "request"
    /\ pdf.content_type # "application/pdf"
    /\ response' = not_pdf_response
    /\ pc' = "responded"
    /\ UNCHANGED <<pdf, page_num, seen_equipment, equipment_data,
                   page_equipment, rows, calls, ret, data, xlsx>>
    /\ UNCHANGED <<colorVars, serverVars>>

\* server.py 44-51 and the entry of extract_with_positions_pdfplumber
StartExtraction ==
    /\ pc = "request"
    /\ pdf.content_type = "application/pdf"
    /\ pc' = "pages"
    /\ page_num' = 0
    /\ seen_equipment' = {}
    /\ equipment_data' = <<>>
    /\ UNCHANGED <<pdf, page_equipment, rows, calls, ret, data, xlsx, response>>
    /\ UNCHANGED <<colorVars, serverVars>>

\* one iteration of the page loop, lines 134-212
ProcessPage ==
    /\ pc = "pages"
    /\ page_num < Len(pdf.pages)
    /\ ~pdf.pages[page_num + 1].raises
    /\ LET r == process_page(pdf.pages[page_num + 1], page_num, seen_equipment)
       IN  /\ seen_equipment' = r.seen
           /\ rows' = r.rows
           /\ calls' = r.calls
           /\ page_equipment' = r.page_equipment
           /\ equipment_data' = equipment_data \o r.page_equipment
    /\ page_num' = page_num + 1
    /\ UNCHANGED <<pdf, pc, ret, data, xlsx, response>>
    /\ UNCHANGED <<colorVars, serverVars>>

\* the extractor raises on the next page: lines 224-228
ExtractorRaises ==
    /\ pc = "pages"
    /\ page_num < Len(pdf.pages)
    /\ pdf.pages[page_num + 1].raises
    /\ ret' = extraction_failed(equipment_data)
    /\ pc' = "returned"
    /\ UNCHANGED <<pdf, page_num, seen_equipment, equipment_data,
                   page_equipment, rows, calls, data, xlsx, response>>
    /\ UNCHANGED <<colorVars, serverVars>>

\* lines 214-222
FinishExtraction ==
    /\ pc = "pages"
    /\ page_num = Len(pdf.pages)
    /\ ret' = Some(finish_extraction(equipment_data))
    /\ pc' = "returned"
    /\ UNCHANGED <<pdf, page_num, seen_equipment, equipment_data,
                   page_equipment, rows, calls, data, xlsx, response>>
    /\ UNCHANGED <<colorVars, serverVars>>

\* extract_from_pdf and main return None: lines 271-277 and 448-450
MainReturnsNone ==
    /\ pc = "returned"
    /\ no_equipment(ret)
    /\ pc' = "main_none"
    /\ UNCHANGED <<pdf, page_num, seen_equipment, equipment_data,
                   page_equipment, rows, calls, ret, data, xlsx, response>>
    /\ UNCHANGED <<colorVars, serverVars>>

\* line 452
PopulateConnections ==
    /\ pc = "returned"
    /\ ~no_equipment(ret)
    /\ data' = Some(populate_connections(ret.val))
    /\ pc' = "connected"
    /\ UNCHANGED <<pdf, page_num, seen_equipment, equipment_data,
                   page_equipment, rows, calls, ret, xlsx, response>>
    /\ UNCHANGED <<colorVars, serverVars>>

\* line 454
CreateExcel ==
    /\ pc = "connected"
    /\ xlsx' = Some(create_excel_file(data.val))
    /\ pc' = "written"
    /\ UNCHANGED <<pdf, page_num, seen_equipment, equipment_data,
                   page_equipment, rows, calls, ret, data, response>>
    /\ UNCHANGED <<colorVars, serverVars>>

\* server.py 51 and 75-80
RespondFailed ==
    /\ pc = "main_none"
    /\ response' = unpack_failed_response
    /\ pc' = "responded"
    /\ UNCHANGED <<pdf, page_num, seen_equipment, equipment_data,
                   page_equipment, rows, calls, ret, data, xlsx>>
    /\ UNCHANGED <<colorVars, serverVars>>

\* server.py 59-73
RespondOk ==
    /\ pc = "written"
    /\ response' = success_response(data_frame(data.val), data.val,
                                    output_name_of(clock))
    /\ pc' = "responded"
    /\ UNCHANGED <<pdf, page_num, seen_equipment, equipment_data,
                   page_equipment, rows, calls, ret, data, xlsx>>
    /\ UNCHANGED <<colorVars, serverVars>>

Next ==
    \/ RejectNotPdf
    \/ StartExtraction
    \/ ProcessPage
    \/ ExtractorRaises
    \/ FinishExtraction
    \/ MainReturnsNone
    \/ PopulateConnections
    \/ CreateExcel
    \/ RespondFailed
    \/ RespondOk

Spec == Init /\ [][Next]_vars

(***************************************************************************)
(* get_dsg_color_by_position on its own                                    *)
(***************************************************************************)
ColorArgs ==
    {a \in [page_num : 0..MaxPages, row_num : -1..MaxRowNum,
            col_num : 0..(MaxCols - 1), total_cols : 1..MaxCols] :
        a.col_num < a.total_cols}

IdleDocument == document(<<>>)

RunIdle(at) ==
    /\ pdf = IdleDocument
    /\ pc = at
    /\ page_num = 0
    /\ seen_equipment = {}
    /\ equipment_data = <<>>
    /\ page_equipment = <<>>
    /\ rows = <<>>
    /\ calls = {}
    /\ ret = NoneVal
    /\ data = NoneVal
    /\ xlsx = NoneVal
    /\ response = NoResponse

InitColor ==
    /\ RunIdle("color")
    /\ cargs \in ColorArgs
    /\ ccolor = ""
    /\ ServerIdle

ApplyColor ==
    /\ pc = "color"
    /\ pc' = "colored"
    /\ ccolor' = get_dsg_color_by_position(cargs.page_num, cargs.row_num,
                                           cargs.col_num, cargs.total_cols)
    /\ UNCHANGED <<pdf, page_num, seen_equipment, equipment_data,
                   page_equipment, rows, calls, ret, data, xlsx, response>>
    /\ UNCHANGED <<cargs, serverVars>>

NextColor == ApplyColor

SpecColor == InitColor /\ [][NextColor]_vars

(***************************************************************************)
(* The endpoint serving several requests.  extract_equipment is an async   *)
(* function that never awaits, so one call runs from start to end before   *)
(* the next; the clock may or may not advance between two calls.           *)
(***************************************************************************)
ServerInputs ==
    {document(<<page_of(<<word_at(quoted(MVSAA100), <<10, 10>>, ""),
                          word_at(quoted(DSGAA102), <<10, 100>>, "")>>)>>),
     document(<<page_of(<<word_at(quoted(DSGAA103), <<10, 10>>, "")>>)>>),
     document(<<page_of(<<>>)>>),
     [content_type |-> "text/plain", pages |-> <<page_of(<<>>)>>]}

InitServer ==
    /\ RunIdle("serving")
    /\ ColorIdle
    /\ ServerIdle

\* server.py 33-80 for request number request carrying doc
endpoint_response(doc, output_name) ==
    IF doc.content_type # "application/pdf" THEN not_pdf_response
    ELSE IF IsNone(main(doc)) THEN unpack_failed_response
    ELSE success_response(main(doc).val.df, main(doc).val.equipment_data,
                          output_name)

\* wb.save(output_path) inside main: the file is replaced
saved(files, doc, output_name, request) ==
    IF doc.content_type = "application/pdf" /\ ~IsNone(main(doc))
    THEN (output_name :> [request |-> request, sheet |-> main(doc).val.sheet])
         @@ files
    ELSE files

HandleRequest(request, doc) ==
    /\ pc = "serving"
    /\ \A i \in 1..Len(handled) : handled[i].request # request
    /\ LET output_name == output_name_of(clock)
       IN  /\ outputs' = saved(outputs, doc, output_name, request)
           /\ handled' = Append(handled,
                  [request  |-> request,
                   response |-> endpoint_response(doc, output_name)])
    /\ UNCHANGED <<runVars, colorVars, clock>>

Tick ==
    /\ pc = "serving"
    /\ clock < MaxClock
    /\ clock' = clock + 1
    /\ UNCHANGED <<runVars, colorVars, handled, outputs>>

Serve == \E request \in 1..MaxRequests : \E doc \in ServerInputs :
            HandleRequest(request, doc)

NextServer ==
    \/ Serve
    \/ Tick

SpecServer == InitServer /\ [][NextServer]_vars

(***************************************************************************)
(* Vocabulary of the properties                                            *)
(***************************************************************************)
\* index of a colour in the palette, counted from 0
PaletteIndex(hex) ==
    (CHOOSE i \in 1..Len(COLOR_SEQUENCE) : COLOR_SEQUENCE[i][2] = hex) - 1

Extracted == pc \in {"returned", "main_none", "connected", "written", "responded"}
Connected == pc \in {"connected", "written", "responded"} /\ data.some
PageDone == pc = "pages" /\ page_num >= 1

KeyOf(it) == <<it.page, it.y_position, it.x_position>>
KeyLeq(a, b) == ~tuple_less(KeyOf(b), KeyOf(a))
SortedByKey(items) ==
    \A i \in 1..(Len(items) - 1) : KeyLeq(items[i], items[i + 1])
NameList(items) == [i \in 1..Len(items) |-> items[i].Equipment]

RECURSIVE Flatten(_)
Flatten(rs) == IF rs = <<>> THEN <<>> ELSE rs[1] \o Flatten(Tail(rs))

OneServiceRowOneDistributionRow ==
    /\ Connected
    /\ Len(pdf.pages) = 1
    /\ Len(rows) = 2
    /\ \A i \in 1..Len(rows[1]) : rows[1][i].Type = "MVS"
    /\ \A j \in 1..Len(rows[2]) : rows[2][j].Type = "DSG"

DataItem(n) == item_named(data.val, n)
ServicesInOrder == select_type(data.val, "MVS")

SameConnections ==
    \A c \in 1..Len(rows[2]) :
        LET it == DataItem(rows[2][c].Equipment)
        IN  /\ it.Primary_From = ServicesInOrder[1].Equipment
            /\ it.Alternate_From = IF Len(ServicesInOrder) >= 2
                                   THEN ServicesInOrder[2].Equipment
                                   ELSE EmptyName

ColumnColors(from) ==
    \A c \in from..Len(rows[2]) :
        PaletteIndex(DataItem(rows[2][c].Equipment).Color) = (c - 1) % 8

\* the Distribution items with no other Distribution item at their left or
\* in their own column
Leftmost ==
    {c \in 1..Len(rows[2]) :
        \A e \in 1..Len(rows[2]) :
            e # c => rows[2][c].x_position < rows[2][e].x_position}

\* (C1, as stated) on a single page of one Service row followed by one
\* Distribution row, after extraction and connection resolution the leftmost
\* Distribution item has palette index 0, the one in column c >= 1 has index
\* c mod 8, and every Distribution item has the first Service item as
\* primary source and the second as alternate source.
C1_LeftmostIsAnchor ==
    OneServiceRowOneDistributionRow =>
        /\ \A c \in Leftmost : PaletteIndex(DataItem(rows[2][c].Equipment).Color) = 0
        /\ ColumnColors(2)
        /\ SameConnections

\* (C1, amended) the same with the Distribution row taken in its (y, x)
\* order: the first item of the row, which is the leftmost one only when no
\* item further right lies higher, has palette index 0 and the item at
\* position c >= 1 of the row has index c mod 8.
C1_EndToEnd ==
    OneServiceRowOneDistributionRow =>
        /\ ColumnColors(1)
        /\ SameConnections

\* MVSAA100 (10,10), MVSAA101 (200,10), DSGAA102 (10,100), DSGAA103 (200,100)
C1_Witness ==
    /\ OneServiceRowOneDistributionRow
    /\ pc = "connected"
    /\ pdf.pages[1].words =
          <<word_at(quoted(MVSAA100), <<10, 10>>, ""),
            word_at(quoted(MVSAA101), <<200, 10>>, ""),
            word_at(quoted(DSGAA102), <<10, 100>>, ""),
            word_at(quoted(DSGAA103), <<200, 100>>, "")>>
    /\ DataItem(DSGAA102).Color = "333333"
    /\ DataItem(DSGAA103).Color = "FFB3B3"
    /\ DataItem(DSGAA103).Primary_From = MVSAA100
    /\ DataItem(DSGAA103).Alternate_From = MVSAA101

(***************************************************************************)
(* Colour of the Service items                                             *)
(***************************************************************************)
RowBypassesAssigner(r) ==
    \A c \in calls : c.row_idx # r - 1

\* (C3) every Service item of the extracted list has the anchor colour
\* 333333, whatever row it was placed in, and only rows made of Service
\* items alone bypass get_dsg_color_by_position.
C3_ServiceAlwaysAnchor ==
    /\ (Extracted /\ ret.some) =>
          \A i \in 1..Len(ret.val) :
              ret.val[i].Type = "MVS" => ret.val[i].Color = "333333"
    /\ PageDone =>
          \A r \in 1..Len(rows) :
              RowBypassesAssigner(r) =>
                  \A c \in 1..Len(rows[r]) : rows[r][c].Type = "MVS"

(***************************************************************************)
(* Connection resolution                                                   *)
(***************************************************************************)
ServiceIdx == {i \in 1..Len(ret.val) : ret.val[i].Type = "MVS"}

\* the Service items selected for page p: those of the page, or all of them
SelectedFor(p) ==
    IF \E i \in ServiceIdx : ret.val[i].page = p
    THEN {i \in ServiceIdx : ret.val[i].page = p}
    ELSE ServiceIdx

\* m comes first among the items of S in (page, y, x) order
FirstAmong(m, S) ==
    m \in S /\ \A i \in S : KeyLeq(ret.val[m], ret.val[i])

SourcesOf(i) == <<data.val[i].Primary_From, data.val[i].Alternate_From>>

\* (C4) populate_connections gives every Distribution item of a page the
\* same pair of sources: with the Service items of that page selected, or
\* all Service items when the page has none, primary is the first selected
\* in (page, y, x) order and alternate the second; with one selected only
\* primary is set; with no Service item the list is returned unchanged with
\* empty connection fields.
C4_Connections ==
    Connected =>
        /\ Len(data.val) = Len(ret.val)
        /\ ServiceIdx = {} =>
              /\ data.val = ret.val
              /\ \A i \in 1..Len(data.val) : SourcesOf(i) = <<EmptyName, EmptyName>>
        /\ ServiceIdx # {} =>
              \A i \in 1..Len(data.val) :
                  data.val[i].Type = "DSG" =>
                      LET S == SelectedFor(data.val[i].page)
                      IN  /\ \E m \in S :
                                /\ FirstAmong(m, S)
                                /\ data.val[i].Primary_From = ret.val[m].Equipment
                                /\ IF Cardinality(S) >= 2
                                   THEN \E m2 \in S \ {m} :
                                          /\ FirstAmong(m2, S \ {m})
                                          /\ data.val[i].Alternate_From =
                                                ret.val[m2].Equipment
                                   ELSE data.val[i].Alternate_From = EmptyName
                          /\ \A j \in 1..Len(data.val) :
                                (data.val[j].Type = "DSG"
                                    /\ data.val[j].page = data.val[i].page)
                                => SourcesOf(j) = SourcesOf(i)

\* a Distribution item on a page without Service items, fed from the two
\* Service items of another page
C4_Witness ==
    /\ pc = "connected"
    /\ \E i \in 1..Len(data.val) :
          /\ data.val[i].Type = "DSG"
          /\ data.val[i].page = 1
          /\ \A m \in ServiceIdx : ret.val[m].page = 0
          /\ Cardinality(ServiceIdx) = 2
          /\ data.val[i].Primary_From # EmptyName
          /\ data.val[i].Alternate_From # EmptyName

(***************************************************************************)
(* Failure of the PDF extractor                                            *)
(***************************************************************************)
IsPdf == pdf.content_type = "application/pdf"
SomePageRaises == \E p \in 1..Len(pdf.pages) : pdf.pages[p].raises
NothingFound == ret.some /\ ret.val = <<>>

\* (C5) if the PDF extractor raises on any page, also after earlier pages
\* were processed, extraction returns None and never a partial list, main
\* neither resolves connections nor writes a spreadsheet, and the endpoint
\* answers 500 with an error detail string, as it does for a PDF in which
\* no equipment is found.
C5_ExtractorFailure ==
    /\ (Extracted /\ SomePageRaises) =>
          /\ IsNone(ret)
          /\ IsNone(data)
          /\ IsNone(xlsx)
          /\ pc \in {"returned", "main_none", "responded"}
    /\ (pc = "responded" /\ IsPdf /\ (SomePageRaises \/ NothingFound)) =>
          /\ response.status = 500
          /\ response.detail =
                "Extraction failed. cannot unpack non-iterable NoneType object"

\* the second page raises after the first gave items
C5_Witness ==
    /\ pc = "responded"
    /\ Len(pdf.pages) = 2
    /\ pdf.pages[2].raises
    /\ equipment_data # <<>>
    /\ IsNone(ret)
    /\ response.status = 500

(***************************************************************************)
(* Output file names of the endpoint                                       *)
(***************************************************************************)
WroteFile(i) == handled[i].response.status = 200

\* (C6) any two requests get different spreadsheet file names, so no request
\* overwrites another's output file or is served another request's file.
C6_UniqueOutputNames ==
    /\ \A i, j \in 1..Len(handled) :
          (i # j /\ WroteFile(i) /\ WroteFile(j)) =>
              handled[i].response.output_name # handled[j].response.output_name
    /\ \A i \in 1..Len(handled) :
          WroteFile(i) =>
              outputs[handled[i].response.output_name].request = handled[i].request

(***************************************************************************)
(* Uniqueness of names, types, first occurrence                            *)
(***************************************************************************)
\* the words of the document whose text holds the quoted name n
Occurrences(n) ==
    UNION {{<<p, i>> : i \in {k \in 1..Len(pdf.pages[p].words) :
                          /\ match_offsets(pdf.pages[p].words[k].text) # {}
                          /\ match_group1(pdf.pages[p].words[k].text) = n}} :
           p \in 1..Len(pdf.pages)}

FirstOccurrence(n) ==
    CHOOSE pi \in Occurrences(n) :
        \A qi \in Occurrences(n) : ~tuple_less(qi, pi)

\* (C7) in the extracted list no two items share a name, every type is MVS
\* or DSG and is the first 3 characters of the name, and an item's position
\* and page are those of the first word holding its name, pages taken in
\* file order and words in extractor order.
C7_UniqueFirstWins ==
    (Extracted /\ ret.some) =>
        /\ \A i, j \in 1..Len(ret.val) :
              ret.val[i].Equipment = ret.val[j].Equipment => i = j
        /\ \A i \in 1..Len(ret.val) :
              LET it == ret.val[i]
                  w  == pdf.pages[FirstOccurrence(it.Equipment)[1]]
                           .words[FirstOccurrence(it.Equipment)[2]]
              IN  /\ it.Type \in {"MVS", "DSG"}
                  /\ it.Type = it.Equipment[1]
                  /\ Occurrences(it.Equipment) # {}
                  /\ it.page = FirstOccurrence(it.Equipment)[1] - 1
                  /\ it.x_position = w.x0
                  /\ it.y_position = w.top

\* a name held by two words on different pages, kept once
C7_Witness ==
    /\ Extracted
    /\ ret.some
    /\ \E i \in 1..Len(ret.val) :
          /\ Cardinality(Occurrences(ret.val[i].Equipment)) = 2
          /\ \E pi, qi \in Occurrences(ret.val[i].Equipment) : pi[1] # qi[1]

(***************************************************************************)
(* Order of the list                                                       *)
(***************************************************************************)
\* (C8) the extracted list is in non-decreasing (page, y, x) order and
\* connection resolution and the spreadsheet keep that order.
C8_CanonicalOrder ==
    /\ (Extracted /\ ret.some) => SortedByKey(ret.val)
    /\ Connected =>
          /\ NameList(data.val) = NameList(ret.val)
          /\ SortedByKey(data.val)
    /\ xlsx.some =>
          [i \in 1..Len(xlsx.val) |-> xlsx.val[i].cells[1]] = NameList(data.val)

\* items of two pages, the higher one of a page further right
C8_Witness ==
    /\ xlsx.some
    /\ Len(data.val) >= 3
    /\ \E i, j \in 1..Len(data.val) : data.val[i].page # data.val[j].page
    /\ \E i, j \in 1..Len(data.val) :
          /\ i < j
          /\ data.val[i].page = data.val[j].page
          /\ data.val[i].y_position < data.val[j].y_position
          /\ data.val[i].x_position > data.val[j].x_position

(***************************************************************************)
(* Rows of a page                                                          *)
(***************************************************************************)
\* the row holding the k-th item of the page
RowOf(k) ==
    CHOOSE r \in 1..Len(rows) :
        /\ k <= Len(Flatten(SubSeq(rows, 1, r)))
        /\ k > Len(Flatten(SubSeq(rows, 1, r - 1)))

YGap(k) ==
    abs(page_equipment[k + 1].y_position - page_equipment[k].y_position)

\* (C9) the rows of a page are non-empty, their concatenation is the page's
\* items in (y, x) order, and two consecutive items share a row exactly when
\* their y-positions differ by less than 50, whatever the first item of the
\* row is.
C9_Rows ==
    PageDone =>
        /\ \A k \in 1..(Len(page_equipment) - 1) :
              ~tuple_less(page_key(page_equipment[k + 1]),
                          page_key(page_equipment[k]))
        /\ \A r \in 1..Len(rows) : rows[r] # <<>>
        /\ Flatten(rows) = page_equipment
        /\ \A k \in 1..(Len(page_equipment) - 1) :
              (RowOf(k) = RowOf(k + 1)) <=> (YGap(k) < 50)

\* a gap of exactly 50 opens a row whose three items drift over 80
C9_Witness ==
    /\ PageDone
    /\ Len(rows) = 2
    /\ Len(rows[1]) = 1
    /\ Len(rows[2]) = 3
    /\ YGap(1) = 50
    /\ rows[2][3].y_position - rows[2][1].y_position > 50

(***************************************************************************)
(* Arguments handed to get_dsg_color_by_position                           *)
(***************************************************************************)
\* rows of the page that are coloured by position
DistributionRows == {r \in 1..Len(rows) : ~is_mvs_row(rows[r])}

\* (C10) for every Distribution row the row number handed to
\* get_dsg_color_by_position is the number of Distribution rows before it on
\* the page, and the column number is the number of Distribution items
\* before the item in its row.
C10_RowIndexAmongDistributionRows ==
    PageDone =>
        \A c \in calls :
            /\ c.row_num =
                  Cardinality({r \in DistributionRows : r < c.row_idx + 1})
            /\ c.col_num =
                  Cardinality({k \in 1..c.col_num :
                                  rows[c.row_idx + 1][k].Type = "DSG"})

(***************************************************************************)
(* Positions coloured by the third rule                                    *)
(***************************************************************************)
ThirdRule ==
    /\ pc = "colored"
    /\ ~(cargs.page_num = 0 /\ cargs.row_num = 0)
    /\ ~(cargs.page_num = 1 /\ cargs.row_num = 0
            /\ cargs.col_num = cargs.total_cols - 1)

\* the colour the call gives to the column shift places to the left
ColorLeftBy(shift) ==
    get_dsg_color_by_position(cargs.page_num, cargs.row_num,
                              cargs.col_num - shift, cargs.total_cols)

\* (C11, as stated) a Distribution position covered neither by rule 1 nor
\* by rule 2 gets one of the 7 non-anchor colours, never index 0, and along
\* the row the colours start at index 1 and repeat every 7 columns.
C11_NeverAnchorPeriod7 ==
    ThirdRule =>
        /\ PaletteIndex(ccolor) \in 1..7
        /\ cargs.col_num = 0 => PaletteIndex(ccolor) = 1
        /\ cargs.col_num >= 7 => ccolor = ColorLeftBy(7)

\* (C11, amended) such a position gets palette index (c + 1) mod 8: one of
\* the 7 non-anchor colours in columns 0..6, the anchor colour in column 7
\* (and in every column c with c mod 8 = 7), and along the row the colours
\* start at index 1 and repeat every 8 columns.
C11_AnchorAtColumn7Period8 ==
    ThirdRule =>
        /\ (cargs.col_num % 8 # 7) => PaletteIndex(ccolor) \in 1..7
        /\ (cargs.col_num % 8 = 7) => PaletteIndex(ccolor) = 0
        /\ cargs.col_num <= 6 => PaletteIndex(ccolor) = cargs.col_num + 1
        /\ cargs.col_num >= 8 => ccolor = ColorLeftBy(8)

\* column 7 of a row of 9 on a later row of page 0
C11_Witness ==
    /\ ThirdRule
    /\ cargs = [page_num |-> 0, row_num |-> 1, col_num |-> 7, total_cols |-> 9]
    /\ ccolor = "333333"

(***************************************************************************)
(* What connection resolution leaves alone                                 *)
(***************************************************************************)
PaletteColors == {COLOR_SEQUENCE[i][2] : i \in 1..Len(COLOR_SEQUENCE)}

KeptFields == {"Equipment", "Type", "Properties", "x_position", "y_position",
               "page", "Color", "ColorName"}

\* (C12) every item of the extracted list has a colour, and connection
\* resolution changes only the primary and alternate source of Distribution
\* items: name, type, properties, position, page and colour of every item
\* stay, the sources of Service items stay empty, and no item is added,
\* removed or moved.
C12_OnlySourcesChange ==
    /\ (Extracted /\ ret.some) =>
          \A i \in 1..Len(ret.val) :
              /\ "Color" \in DOMAIN ret.val[i]
              /\ ret.val[i].Color \in PaletteColors
    /\ Connected =>
          /\ Len(data.val) = Len(ret.val)
          /\ \A i \in 1..Len(data.val) :
                /\ DOMAIN data.val[i] = DOMAIN ret.val[i]
                /\ \A f \in KeptFields : data.val[i][f] = ret.val[i][f]
                /\ data.val[i].Type # "DSG" => data.val[i] = ret.val[i]
                /\ data.val[i].Type = "MVS" =>
                      /\ data.val[i].Primary_From = EmptyName
                      /\ data.val[i].Alternate_From = EmptyName

\* a Service item with properties next to a Distribution item that got a
\* primary source
C12_Witness ==
    /\ pc = "connected"
    /\ \E i, j \in 1..Len(data.val) :
          /\ data.val[i].Type = "MVS"
          /\ data.val[i].Properties # ""
          /\ data.val[j].Type = "DSG"
          /\ data.val[j].Primary_From = data.val[i].Equipment
          /\ ret.val[j].Primary_From = EmptyName

====
